---------------------------- MODULE Spec2Model ----------------------------
(***************************************************************************)
(* State-chain words (puzzles/states/state-chain-words.py).                *)
(*                                                                         *)
(* The program enumerates chains of adjacent US states and reports the     *)
(* dictionary words that are anagrams of a chain's concatenated postal     *)
(* abbreviations.  The model follows the script statement by statement:    *)
(* build_neighbor_chains / traverse_neighbor_chain run on an explicit call *)
(* stack over a heap of Python set and list objects (so that sharing a     *)
(* set between two calls is observable), then the dictionary is read into  *)
(* the anagram index and every chain is looked up.                         *)
(*                                                                         *)
(* Strings are sequences of code points (65 = "A", 97 = "a", 10 = "\n").   *)
(***************************************************************************)
EXTENDS Integers, Sequences, FiniteSets, TLC

VARIABLES
    states_and_neighbors, \* the module-level table, in insertion order
    pc,                   \* position of the main routine
    chain_length,         \* main: chain_length
    stack,                \* call stack of traverse_neighbor_chain frames
    sets,                 \* heap of set objects   (reference = index)
    lists,                \* heap of list objects  (reference = index)
    next_state,           \* build_neighbor_chains: position of "for state in ..."
    chains,               \* the list `chains`: references to list objects
    word_file,            \* the lines of the word file
    line_no,              \* position of "for line in word_file"
    anagrams,             \* dict: key -> list of words
    chain_no,             \* position of "for chain in chains"
    total_found_words,    \* set of words
    printed,              \* the path lines printed so far
    report                \* what the final block printed

vars == << states_and_neighbors, pc, chain_length, stack, sets, lists,
           next_state, chains, word_file, line_no, anagrams, chain_no,
           total_found_words, printed, report >>

----------------------------------------------------------------------------
(* Bounds of the model *)

MaxChain == 3
MaxLines == 3

(* main: chain_length = 4 when no argument is given *)
DefaultChainLength == 4

----------------------------------------------------------------------------
(* Generic helpers *)

Range(s) == { s[i] : i \in 1..Len(s) }

RECURSIVE Flatten(_)
Flatten(ss) == IF ss = << >> THEN << >> ELSE Head(ss) \o Flatten(Tail(ss))

----------------------------------------------------------------------------
(* class State and the table *)

None == << >>

\* State.__init__: neighbors defaults to an empty list
State(name, abbr, neighbors) ==
    [ name |-> name, abbr |-> abbr, neighbors |-> neighbors ]

AL == << 65, 76 >>
MS == << 77, 83 >>
LA == << 76, 65 >>
AR == << 65, 82 >>
TX == << 84, 88 >>
AK == << 65, 75 >>

\* Tables the enumerator is run on: sub-tables of the source's table, and
\* variations of them (an isolated state, a one-directional entry, a state
\* listing itself, a neighbor name that is not a key).
Tables ==
    { << State("Alabama", AL, << "Mississippi" >>),
         State("Mississippi", MS, << "Louisiana", "Alabama" >>),
         State("Louisiana", LA, << "Mississippi" >>) >>,
      << State("Alabama", AL, << "Mississippi" >>),
         State("Alaska", AK, None),
         State("Mississippi", MS, << "Louisiana", "Alabama" >>),
         State("Louisiana", LA, << "Mississippi" >>) >>,
      << State("Alabama", AL, << "Mississippi", "Atlantis" >>),
         State("Mississippi", MS, << "Alabama" >>) >>,
      << State("Alabama", AL, None),
         State("Mississippi", MS, << "Alabama" >>),
         State("Louisiana", LA, << "Mississippi" >>) >>,
      << State("Alabama", AL, << "Alabama", "Mississippi" >>),
         State("Mississippi", MS, << "Alabama" >>) >>,
      << State("Alaska", AK, None) >> }

\* Four states of the source's table with all their common borders
FourStates ==
    << State("Arkansas", AR, << "Texas", "Louisiana", "Mississippi" >>),
       State("Louisiana", LA, << "Texas", "Arkansas", "Mississippi" >>),
       State("Mississippi", MS, << "Louisiana", "Arkansas" >>),
       State("Texas", TX, << "Arkansas", "Louisiana" >>) >>

\* Every table of three states whose neighbor lists name states of the table
MaxDegree == 2

GenNames == << "Alabama", "Mississippi", "Louisiana" >>

GenAbbrs == << AL, MS, LA >>

NeighborLists ==
    { l \in UNION { [ 1..d -> Range(GenNames) ] : d \in 0..MaxDegree } :
        \A i, j \in 1..Len(l) : i # j => l[i] # l[j] }

TablesOf(n) ==
    { [ i \in 1..n |-> State(GenNames[i], GenAbbrs[i], nl[i]) ] :
        nl \in [ 1..n -> { l \in NeighborLists :
                             Range(l) \subseteq { GenNames[i] : i \in 1..n } } ] }

InsertAt(l, p, x) == SubSeq(l, 1, p - 1) \o << x >> \o SubSeq(l, p, Len(l))

\* Every table of two states with one neighbor name that is not a key,
\* at any position of any neighbor list
DanglingTables ==
    { [ x[1] EXCEPT ![x[2]].neighbors = InsertAt(@, x[3], "Atlantis") ] :
        x \in { y \in TablesOf(2) \X (1..2) \X (1..(MaxDegree + 1)) :
                  y[3] <= Len(y[1][y[2]].neighbors) + 1 } }

GenTables == TablesOf(3) \cup DanglingTables \cup { FourStates }

Keys(tbl) == { tbl[i].name : i \in 1..Len(tbl) }

\* states_and_neighbors[name]
Lookup(tbl, name) == tbl[CHOOSE i \in 1..Len(tbl) : tbl[i].name = name]

get_neighbors(tbl, name) == Lookup(tbl, name).neighbors

get_abbr(tbl, name) == Lookup(tbl, name).abbr

----------------------------------------------------------------------------
(* traverse_neighbor_chain, one frame per call *)

Top == stack[Len(stack)]

Pop == SubSeq(stack, 1, Len(stack) - 1)

SetTop(f) == [ stack EXCEPT ![Len(stack)] = f ]

Frame(state, states_seen, chain, max_depth) ==
    [ state |-> state, states_seen |-> states_seen, chain |-> chain,
      max_depth |-> max_depth, at |-> "entry", i |-> 1 ]

\* variant: the membership test never finds the neighbor
NeighborSeen_Never(neighbor, states_seen) == FALSE

\* "if neighbor in states_seen"
NeighborSeen(neighbor, states_seen) == neighbor \in sets[states_seen]

\* variant: the recursive call is handed the caller's own set
local_states_seen_Shared(f) == f.states_seen

\* the objects handed to the recursive call: states_seen.copy(), chain.copy()
local_states_seen(f) == Len(sets) + 1

local_chain(f) == Len(lists) + 1

\* lines 115-127
Enter ==
    /\ pc = "build"
    /\ stack # << >>
    /\ Top.at = "entry"
    /\ lists' = [ lists EXCEPT ![Top.chain] = Append(@, Top.state) ]
    /\ IF Top.max_depth = 0
       THEN /\ chains' = Append(chains, Top.chain)
            /\ stack' = Pop
            /\ sets' = sets
       ELSE /\ sets' = [ sets EXCEPT ![Top.states_seen] = @ \cup { Top.state } ]
            /\ stack' = SetTop([ Top EXCEPT !.at = "loop" ])
            /\ chains' = chains
    /\ UNCHANGED << states_and_neighbors, pc, chain_length, next_state,
                    word_file, line_no, anagrams, chain_no,
                    total_found_words, printed, report >>

InLoop ==
    /\ pc = "build"
    /\ stack # << >>
    /\ Top.at = "loop"
    /\ Top.i <= Len(get_neighbors(states_and_neighbors, Top.state))

neighbor_name == get_neighbors(states_and_neighbors, Top.state)[Top.i]

\* variant: a name that is not a key is passed over (dict.get, continue)
LoopOutcome_DropEdge(tbl, name, states_seen) ==
    IF name \notin Keys(tbl) THEN "continue"
    ELSE IF name \in sets[states_seen] THEN "continue"
    ELSE "recurse"

\* lines 130-136: what one iteration of the loop does with a neighbor name
LoopOutcome(tbl, name, states_seen) ==
    IF name \notin Keys(tbl) THEN "KeyError"
    ELSE IF NeighborSeen(name, states_seen) THEN "continue"
    ELSE "recurse"

\* line 130 with a name that is not a key: KeyError leaves every frame
LoopKeyError ==
    /\ InLoop
    /\ LoopOutcome(states_and_neighbors, neighbor_name, Top.states_seen)
           = "KeyError"
    /\ pc' = "KeyError"
    /\ stack' = << >>
    /\ UNCHANGED << states_and_neighbors, chain_length, sets, lists,
                    next_state, chains, word_file, line_no, anagrams,
                    chain_no, total_found_words, printed, report >>

\* lines 135-136
LoopSkip ==
    /\ InLoop
    /\ LoopOutcome(states_and_neighbors, neighbor_name, Top.states_seen)
           = "continue"
    /\ stack' = SetTop([ Top EXCEPT !.i = @ + 1 ])
    /\ UNCHANGED << states_and_neighbors, pc, chain_length, sets, lists,
                    next_state, chains, word_file, line_no, anagrams,
                    chain_no, total_found_words, printed, report >>

\* lines 151-153
LoopRecurse ==
    /\ InLoop
    /\ LoopOutcome(states_and_neighbors, neighbor_name, Top.states_seen)
           = "recurse"
    /\ sets' = Append(sets, sets[Top.states_seen])
    /\ lists' = Append(lists, lists[Top.chain])
    /\ stack' = Append(SetTop([ Top EXCEPT !.i = @ + 1 ]),
                       Frame(neighbor_name, local_states_seen(Top),
                             local_chain(Top), Top.max_depth - 1))
    /\ UNCHANGED << states_and_neighbors, pc, chain_length, next_state,
                    chains, word_file, line_no, anagrams, chain_no,
                    total_found_words, printed, report >>

\* the for loop of line 129 is exhausted: the call returns
Return ==
    /\ pc = "build"
    /\ stack # << >>
    /\ Top.at = "loop"
    /\ Top.i > Len(get_neighbors(states_and_neighbors, Top.state))
    /\ stack' = Pop
    /\ UNCHANGED << states_and_neighbors, pc, chain_length, sets, lists,
                    next_state, chains, word_file, line_no, anagrams,
                    chain_no, total_found_words, printed, report >>

----------------------------------------------------------------------------
(* build_neighbor_chains *)

\* variant: the table is walked from its last entry to its first
StateAt_Reversed(k) ==
    states_and_neighbors[Len(states_and_neighbors) + 1 - k].name

\* the state the for loop of line 103 visits at position k
StateAt(k) == states_and_neighbors[k].name

\* lines 103-106
BuildNext ==
    /\ pc = "build"
    /\ stack = << >>
    /\ next_state <= Len(states_and_neighbors)
    /\ lists' = Append(lists, << >>)
    /\ sets' = Append(sets, {})
    /\ stack' = << Frame(StateAt(next_state), Len(sets) + 1, Len(lists) + 1,
                         chain_length - 1) >>
    /\ next_state' = next_state + 1
    /\ UNCHANGED << states_and_neighbors, pc, chain_length, chains,
                    word_file, line_no, anagrams, chain_no,
                    total_found_words, printed, report >>

\* line 108
BuildReturn ==
    /\ pc = "build"
    /\ stack = << >>
    /\ next_state > Len(states_and_neighbors)
    /\ pc' = "open"
    /\ UNCHANGED << states_and_neighbors, chain_length, stack, sets, lists,
                    next_state, chains, word_file, line_no, anagrams,
                    chain_no, total_found_words, printed, report >>

\* the value of the list `chains`
ChainsValue == [ k \in 1..Len(chains) |-> lists[chains[k]] ]

----------------------------------------------------------------------------
(* Strings: str.strip, str.upper, list.sort, the regular expression *)

Whitespace == { 9, 10, 11, 12, 13, 32 }

\* line.strip(): leading and trailing whitespace removed
RECURSIVE lstrip(_)
lstrip(s) ==
    IF s # << >> /\ Head(s) \in Whitespace THEN lstrip(Tail(s)) ELSE s

RECURSIVE rstrip(_)
rstrip(s) ==
    IF s # << >> /\ s[Len(s)] \in Whitespace
    THEN rstrip(SubSeq(s, 1, Len(s) - 1))
    ELSE s

strip(s) == rstrip(lstrip(s))

\* str.upper() of one character: a-z map to A-Z, the sharp s (223) maps to
\* the two characters "SS", every other character of the model is unchanged
UpperChar(c) ==
    IF c \in 97..122 THEN << c - 32 >>
    ELSE IF c = 223 THEN << 83, 83 >>
    ELSE << c >>

upper(s) == Flatten([ i \in 1..Len(s) |-> UpperChar(s[i]) ])

\* list.sort() on characters: ascending code points
RECURSIVE Insert(_, _)
Insert(c, s) ==
    IF s = << >> THEN << c >>
    ELSE IF c <= Head(s) THEN << c >> \o s
    ELSE << Head(s) >> \o Insert(c, Tail(s))

RECURSIVE sort(_)
sort(s) == IF s = << >> THEN << >> ELSE Insert(Head(s), sort(Tail(s)))

\* variant: the letters are not sorted
generate_key_Unsorted(string) == upper(string)

\* lines 181-185: the letters are sorted first, the result is upper-cased
generate_key(string) == upper(sort(string))

\* line 194
word_length == chain_length * 2

Digit(d) == 48 + d

\* pattern.match(word) for regex = "^[A-Z]{%d}$" % word_length.  With a
\* negative length the braces are no repetition: "{-2}" is matched literally
\* after one letter.
PatternMatch(word) ==
    IF word_length >= 0
    THEN /\ Len(word) = word_length
         /\ \A i \in 1..Len(word) : word[i] \in 65..90
    ELSE /\ Len(word) = 5
         /\ word[1] \in 65..90
         /\ SubSeq(word, 2, 5) = << 123, 45, Digit(0 - word_length), 125 >>

----------------------------------------------------------------------------
(* main routine, lines 159-168 *)

\* sys.argv[1:]: no argument, or a chain length: a negative one, zero, or a
\* positive one up to MaxChain (int() of a non-integer raises before
\* anything else happens and is not modelled)
Args == { << >> } \cup { << n >> : n \in { -1 } \cup (0..MaxChain) }

Main ==
    /\ pc = "main"
    /\ \E arg \in Args :
          chain_length' = IF Len(arg) > 0 THEN arg[1] ELSE DefaultChainLength
    /\ pc' = "build"
    /\ UNCHANGED << states_and_neighbors, stack, sets, lists, next_state,
                    chains, word_file, line_no, anagrams, chain_no,
                    total_found_words, printed, report >>

----------------------------------------------------------------------------
(* main routine, lines 170-241 *)

\* Lines a word file is made of
Lines ==
    { << 97, 108, 109, 115, 10 >>,       \* "alms\n"
      << 115, 108, 97, 109, 10 >>,       \* "slam\n"
      << 83, 76, 65, 77 >>,              \* "SLAM"
      << 32, 108, 97, 32, 10 >>,         \* " la \n"
      << 97, 108, 45, 115, 10 >>,        \* "al-s\n"
      << 223, 10 >>,                     \* sharp s, "\n"
      << 108, 97, 108, 97, 10 >> }       \* "lala\n"

Files == UNION { [ 1..k -> Lines ] : k \in 0..MaxLines }

EmptyDict == [ k \in {} |-> << >> ]

\* lines 172-176
OpenFile ==
    /\ pc = "open"
    /\ word_file' \in Files
    /\ anagrams' = EmptyDict
    /\ line_no' = 1
    /\ pc' = "read"
    /\ UNCHANGED << states_and_neighbors, chain_length, stack, sets, lists,
                    next_state, chains, chain_no, total_found_words,
                    printed, report >>

\* line 202
Word(line) == upper(strip(line))

\* variant: only the length is tested
ValidWord_LengthOnly(word) == Len(word) = word_length

\* lines 206-209: the word is indexed
ValidWord(word) == Len(word) = word_length /\ PatternMatch(word)

\* lines 212-215
AddWord(dict, key, word) ==
    IF key \in DOMAIN dict
    THEN [ dict EXCEPT ![key] = Append(@, word) ]
    ELSE [ k \in DOMAIN dict \cup { key } |->
             IF k = key THEN << word >> ELSE dict[k] ]

\* one iteration of the for loop of line 201
ReadLine ==
    /\ pc = "read"
    /\ line_no <= Len(word_file)
    /\ LET word == Word(word_file[line_no])
       IN  anagrams' = IF ValidWord(word)
                       THEN AddWord(anagrams, generate_key(word), word)
                       ELSE anagrams
    /\ line_no' = line_no + 1
    /\ UNCHANGED << states_and_neighbors, pc, chain_length, stack, sets,
                    lists, next_state, chains, word_file, chain_no,
                    total_found_words, printed, report >>

\* the file is exhausted; line 218
ReadDone ==
    /\ pc = "read"
    /\ line_no > Len(word_file)
    /\ total_found_words' = {}
    /\ chain_no' = 1
    /\ pc' = "match"
    /\ UNCHANGED << states_and_neighbors, chain_length, stack, sets, lists,
                    next_state, chains, word_file, line_no, anagrams,
                    printed, report >>

\* line 221
chain_abbrs(chain) ==
    [ i \in 1..Len(chain) |-> get_abbr(states_and_neighbors, chain[i]) ]

\* line 222
chain_string(chain) == Flatten(chain_abbrs(chain))

\* variant: the chain string is looked up as it is
ChainKey_Unsorted(chain) == upper(chain_string(chain))

\* line 226: the key a chain is looked up under
ChainKey(chain) == generate_key(chain_string(chain))

\* one iteration of the for loop of line 220
MatchChain ==
    /\ pc = "match"
    /\ chain_no <= Len(chains)
    /\ LET chain == lists[chains[chain_no]]
           key == ChainKey(chain)
       IN  IF key \in DOMAIN anagrams
           THEN /\ printed' = Append(printed, [ abbrs |-> chain_abbrs(chain),
                                                words |-> anagrams[key] ])
                /\ total_found_words' =
                       total_found_words \cup Range(anagrams[key])
           ELSE UNCHANGED << printed, total_found_words >>
    /\ chain_no' = chain_no + 1
    /\ UNCHANGED << states_and_neighbors, pc, chain_length, stack, sets,
                    lists, next_state, chains, word_file, line_no,
                    anagrams, report >>

\* lines 235-241
Report ==
    /\ pc = "match"
    /\ chain_no > Len(chains)
    /\ report' = IF Cardinality(total_found_words) > 0
                 THEN "All words:" ELSE "No words found."
    /\ pc' = "done"
    /\ UNCHANGED << states_and_neighbors, chain_length, stack, sets, lists,
                    next_state, chains, word_file, line_no, anagrams,
                    chain_no, total_found_words, printed >>

Init ==
    /\ states_and_neighbors \in Tables
    /\ pc = "main"
    /\ chain_length = DefaultChainLength
    /\ stack = << >>
    /\ sets = << >>
    /\ lists = << >>
    /\ next_state = 1
    /\ chains = << >>
    /\ word_file = << >>
    /\ line_no = 1
    /\ anagrams = EmptyDict
    /\ chain_no = 1
    /\ total_found_words = {}
    /\ printed = << >>
    /\ report = "nothing"

Next ==
    \/ Main
    \/ BuildNext
    \/ Enter
    \/ LoopKeyError
    \/ LoopSkip
    \/ LoopRecurse
    \/ Return
    \/ BuildReturn
    \/ OpenFile
    \/ ReadLine
    \/ ReadDone
    \/ MatchChain
    \/ Report

Spec == Init /\ [][Next]_vars

----------------------------------------------------------------------------
(* The enumerator alone, on every table of GenTables as well *)

InitEnum ==
    /\ states_and_neighbors \in Tables \cup GenTables
    /\ pc = "main"
    /\ chain_length = DefaultChainLength
    /\ stack = << >>
    /\ sets = << >>
    /\ lists = << >>
    /\ next_state = 1
    /\ chains = << >>
    /\ word_file = << >>
    /\ line_no = 1
    /\ anagrams = EmptyDict
    /\ chain_no = 1
    /\ total_found_words = {}
    /\ printed = << >>
    /\ report = "nothing"

NextEnum ==
    \/ Main
    \/ BuildNext
    \/ Enter
    \/ LoopKeyError
    \/ LoopSkip
    \/ LoopRecurse
    \/ Return
    \/ BuildReturn

EnumSpec == InitEnum /\ [][NextEnum]_vars

----------------------------------------------------------------------------
(* Notions the properties are stated with *)

\* the enumeration has returned its list
Returned == pc \in { "open", "read", "match", "done" }

IsEdge(tbl, u, v) ==
    /\ u \in Keys(tbl)
    /\ v \in Keys(tbl)
    /\ v \in Range(get_neighbors(tbl, u))

IsSimplePath(tbl, p, n) ==
    /\ Len(p) = n
    /\ \A i \in 1..Len(p) : p[i] \in Keys(tbl)
    /\ \A i, j \in 1..Len(p) : i # j => p[i] # p[j]
    /\ \A i \in 1..(Len(p) - 1) : IsEdge(tbl, p[i], p[i + 1])

SimplePaths(tbl, n) ==
    { p \in [ 1..n -> Keys(tbl) ] : IsSimplePath(tbl, p, n) }

HasDangling(tbl) ==
    \E i \in 1..Len(tbl) : ~ (Range(tbl[i].neighbors) \subseteq Keys(tbl))

\* depth-first order: the extensions of a path, neighbor by neighbor
RECURSIVE Extensions(_, _, _)
Extensions(tbl, path, depth) ==
    IF depth = 0 THEN << path >>
    ELSE LET nbrs == get_neighbors(tbl, path[Len(path)])
         IN  Flatten([ i \in 1..Len(nbrs) |->
                        IF nbrs[i] \in Range(path) THEN << >>
                        ELSE Extensions(tbl, Append(path, nbrs[i]),
                                        depth - 1) ])

DepthFirstOrder(tbl, n) ==
    Flatten([ k \in 1..Len(tbl) |-> Extensions(tbl, << tbl[k].name >>, n - 1) ])

Count(c, s) == Cardinality({ i \in 1..Len(s) : s[i] = c })

IsAnagram(w, s) ==
    /\ Len(w) = Len(s)
    /\ \A c \in Range(w) \cup Range(s) : Count(c, w) = Count(c, s)

RECURSIVE Rearrangements(_)
Rearrangements(s) ==
    IF s = << >> THEN { << >> }
    ELSE UNION { { << s[i] >> \o q :
                     q \in Rearrangements(SubSeq(s, 1, i - 1)
                                        \o SubSeq(s, i + 1, Len(s))) } :
                 i \in 1..Len(s) }

CodesOf(tbl, p) == Flatten([ i \in 1..Len(p) |-> Lookup(tbl, p[i]).abbr ])

\* the word is a chain word of the table
IsChainWord(tbl, w) ==
    /\ Len(w) % 2 = 0
    /\ \E p \in [ 1..(Len(w) \div 2) -> Keys(tbl) ] :
          /\ CodesOf(tbl, p) = w
          /\ \A i \in 1..(Len(p) - 1) : IsEdge(tbl, p[i], p[i + 1])

IndexedWords == UNION { Range(anagrams[k]) : k \in DOMAIN anagrams }

ReportedWords ==
    total_found_words \cup UNION { Range(printed[i].words) : i \in 1..Len(printed) }

IsLetters(w, n) == Len(w) = n /\ \A i \in 1..Len(w) : w[i] \in 65..90

\* the accepted words among the first m lines of the file, in input order
AcceptedWords(m) ==
    LET words == [ i \in 1..m |-> Word(word_file[i]) ]
        Accepted(w) == IsLetters(w, 2 * chain_length)
    IN  SelectSeq(words, Accepted)

WordsOfKey(ws, k) ==
    LET SameKey(w) == generate_key(w) = k
    IN  SelectSeq(ws, SameKey)

----------------------------------------------------------------------------
(* Properties *)

\* C1: for a chain length n >= 1, every path in the list `chains` has
\* exactly n nodes, no node twice, and each node is listed as a neighbor of
\* the node before it.
C1_PathsAreSimple ==
    chain_length >= 1 =>
        \A k \in 1..Len(chains) :
            IsSimplePath(states_and_neighbors, lists[chains[k]], chain_length)

C1_Witness ==
    /\ pc = "open"
    /\ chain_length = 3
    /\ Len(chains) >= 2

\* C2: for a chain length n >= 1, the returned list holds every simple path
\* of n nodes of the table, each exactly once.
C2_AllPathsOnce ==
    (Returned /\ chain_length >= 1) =>
        /\ Range(ChainsValue) = SimplePaths(states_and_neighbors, chain_length)
        /\ \A i, j \in 1..Len(chains) :
              i # j => ChainsValue[i] # ChainsValue[j]

\* the line Alabama - Mississippi - Louisiana with chain length 2
C2_Witness ==
    /\ pc = "open"
    /\ chain_length = 2
    /\ states_and_neighbors =
          << State("Alabama", AL, << "Mississippi" >>),
             State("Mississippi", MS, << "Louisiana", "Alabama" >>),
             State("Louisiana", LA, << "Mississippi" >>) >>
    /\ Range(ChainsValue) = { << "Alabama", "Mississippi" >>,
                              << "Mississippi", "Alabama" >>,
                              << "Mississippi", "Louisiana" >>,
                              << "Louisiana", "Mississippi" >> }

\* C3: with a chain length of 0 or less the program stops with an error
\* before traverse_neighbor_chain is entered and before a path list exists.
C3_NonPositiveRejected ==
    (pc # "main" /\ chain_length <= 0) =>
        /\ stack = << >>
        /\ ~ Returned

\* C4: every reported word is a chain word: its two-letter groups are codes
\* of states, each adjacent to the one before.
C4_ReportedAreChainWords ==
    \A w \in ReportedWords : IsChainWord(states_and_neighbors, w)

\* C4, amended: every reported word is an anagram of the concatenated codes
\* of a simple path of chain_length states.
C4_ReportedAreAnagrams ==
    chain_length >= 1 =>
        \A w \in ReportedWords :
            \E p \in SimplePaths(states_and_neighbors, chain_length) :
                IsAnagram(w, CodesOf(states_and_neighbors, p))

C4_Witness ==
    /\ pc = "done"
    /\ << 83, 76, 65, 77 >> \in total_found_words
    /\ ~ IsChainWord(states_and_neighbors, << 83, 76, 65, 77 >>)

\* C5: every indexed word is found under the key of every permutation of
\* its letters, and all permutations have the key of the word.
C5_RoundTrip ==
    \A w \in IndexedWords :
        \A p \in Rearrangements(w) :
            /\ generate_key(p) = generate_key(w)
            /\ generate_key(p) \in DOMAIN anagrams
            /\ w \in Range(anagrams[generate_key(p)])

C5_Witness ==
    /\ pc = "match"
    /\ << 83, 76, 65, 77 >> \in IndexedWords
    /\ << 65, 76, 77, 83 >> \in IndexedWords

\* C6: the index holds exactly the lines read so far whose stripped,
\* upper-cased form is 2 x chain_length ASCII letters, under each key in
\* input order, duplicates kept; no line raises an error.
C6_IndexIsFilteredInput ==
    pc \in { "read", "match", "done" } =>
        LET ws == AcceptedWords(line_no - 1)
        IN  /\ DOMAIN anagrams = { generate_key(ws[i]) : i \in 1..Len(ws) }
            /\ \A k \in DOMAIN anagrams : anagrams[k] = WordsOfKey(ws, k)

\* the file "slam", "al-s", "SLAM" read with chain length 2: the line with
\* the hyphen is skipped, the word is indexed twice
C6_Witness ==
    /\ pc = "match"
    /\ chain_length = 2
    /\ word_file = << << 115, 108, 97, 109, 10 >>,
                      << 97, 108, 45, 115, 10 >>,
                      << 83, 76, 65, 77 >> >>
    /\ DOMAIN anagrams = { << 65, 76, 77, 83 >> }
    /\ anagrams[<< 65, 76, 77, 83 >>] =
          << << 83, 76, 65, 77 >>, << 83, 76, 65, 77 >> >>

\* C7: at the end total_found_words is the set of indexed words whose key
\* is the key of the codes of some enumerated path.
C7_TotalFoundWords ==
    pc = "done" =>
        total_found_words =
            { w \in IndexedWords :
                \E k \in 1..Len(chains) :
                    upper(sort(w)) =
                        upper(sort(CodesOf(states_and_neighbors, ChainsValue[k]))) }

\* a word found by two paths, from a duplicate dictionary entry
C7_Witness ==
    /\ pc = "done"
    /\ Len(printed) >= 2
    /\ \E i, j \in 1..Len(printed) :
          /\ i # j
          /\ printed[i].words = << << 83, 76, 65, 77 >>, << 83, 76, 65, 77 >> >>
          /\ printed[j].words = printed[i].words
    /\ total_found_words = { << 83, 76, 65, 77 >> }

\* C8: the returned list is the table-order, depth-first, neighbor-list-order
\* list of paths, a function of the table and the chain length alone.
C8_DepthFirstOrder ==
    Returned =>
        ChainsValue = DepthFirstOrder(states_and_neighbors, chain_length)

C8_Witness ==
    /\ pc = "open"
    /\ chain_length = 3
    /\ Len(chains) >= 4
    /\ ChainsValue[1][1] # ChainsValue[Len(chains)][1]

\* C9: every call sees as states_seen exactly the nodes of its own chain, a
\* step of the running call changes no set or list but its own, and a
\* neighbor is skipped exactly when it occurs in the current path.
C9_OwnView ==
    \A k \in 1..Len(stack) :
        sets[stack[k].states_seen] = Range(lists[stack[k].chain])

C9_Step ==
    /\ \A k \in 1..(Len(stack) - 1) :
          /\ sets'[stack[k].states_seen] = sets[stack[k].states_seen]
          /\ lists'[stack[k].chain] = lists[stack[k].chain]
    /\ stack # << >> =>
          /\ \A r \in 1..Len(sets) :
                r # Top.states_seen => sets'[r] = sets[r]
          /\ \A r \in 1..Len(lists) :
                r # Top.chain => lists'[r] = lists[r]
    /\ (InLoop /\ neighbor_name \in Keys(states_and_neighbors)) =>
          (Len(stack') = Len(stack)
              <=> neighbor_name \in Range(lists[Top.chain]))

C9_IndependentBranches == [] C9_OwnView /\ [][C9_Step]_vars

\* a second branch is entered while the set of the first branch holds a
\* state that is not in the path of the second
C9_Witness ==
    /\ pc = "build"
    /\ Len(stack) >= 2
    /\ Top.at = "entry"
    /\ stack[Len(stack) - 1].i >= 3
    /\ \E r \in 1..Len(sets) :
          sets[r] \ (Range(lists[Top.chain]) \cup { Top.state }) # {}

\* C10: with a neighbor name that is not a key and a chain length n >= 1,
\* the enumeration never returns a list.
C10_DanglingFailsFast ==
    (HasDangling(states_and_neighbors) /\ pc # "main" /\ chain_length >= 1) =>
        ~ Returned

\* C10, amended: with a neighbor name that is not a key and a chain length
\* n >= 2, the enumeration never returns a list, and it stops only with the
\* KeyError.
C10_DanglingFailsFastFrom2 ==
    (HasDangling(states_and_neighbors) /\ pc # "main" /\ chain_length >= 2) =>
        /\ ~ Returned
        /\ ((~ ENABLED NextEnum) => pc = "KeyError")

C10_Witness ==
    /\ HasDangling(states_and_neighbors)
    /\ chain_length >= 2
    /\ pc = "KeyError"
    /\ Len(chains) >= 1

=============================================================================
